---- MODULE Spec2Model ----
(***************************************************************************)
(* Model of Tools/ci/static_scan.py: find_method_ranges (the brace-depth   *)
(* walk that locates Update/FixedUpdate/LateUpdate bodies) and the rule    *)
(* evaluation of main() that turns a file's text into an ordered list of   *)
(* findings.                                                               *)
(*                                                                         *)
(* A text is a sequence of symbols.  A symbol is either one character      *)
(* ("{", "}", LF, FF, " ", the backslash BSL, the letter "n", "+", "-",    *)
(* "=")                                                                    *)
(* or one lexeme that a regular expression of the program reads as a unit  *)
(* ("void Update(", "GetComponent", ...).  Offsets are 0-based as in       *)
(* Python: At(t, i) is text[i].  read_text() translates every carriage     *)
(* return to a newline, so a text holds none; the form feed FF stands for  *)
(* the characters that end a line for splitlines() and are not newlines.   *)
(***************************************************************************)
EXTENDS Integers, Sequences, FiniteSets, TLC

VARIABLES
    cs_files,       \* the texts of the files main() iterates over (input)
    p,              \* 1-based index of the file the for loop of main() is at
    pc,             \* the statement the program is at
    text,           \* main: text = p.read_text()
    lines,          \* main: lines = text.splitlines()
    method_ranges,  \* main: method_ranges = find_method_ranges(text)
    findings,       \* main: the list of findings, appended to in rule order
    report,         \* the rows written by the csv writer
    text_len,       \* find_method_ranges: len(text)
    ranges,         \* find_method_ranges: name -> list of (start_line, end_line)
    m,              \* find_method_ranges: 1-based position in finditer's matches
    name,           \* find_method_ranges: m.group(1)
    brace_pos,      \* find_method_ranges: offset of the opening brace
    depth,          \* find_method_ranges: the brace depth counter
    i,              \* find_method_ranges: the walk index
    end_pos,        \* find_method_ranges: offset of the closing brace, or None
    g,              \* main: position of the loop over method_ranges.items()
    r,              \* main: position of the loop over the ranges of a group
    origin,         \* history: per name, the match offset each range came from
    prov,           \* history: per finding, the rule step that appended it
    returned        \* history: per scanned file, the mapping find_method_ranges returned

vars == <<cs_files, p, pc, text, lines, method_ranges, findings, report,
          text_len, ranges, m, name, brace_pos, depth, i, end_pos, g, r,
          origin, prov, returned>>

-----------------------------------------------------------------------------
(* Symbols *)

LF  == "LF"      \* the newline character
FF  == "FF"      \* a form feed: ends a line for splitlines(), is no "\n"
SP  == " "       \* a space
BSL == "BSL"     \* a backslash character
LBRACE == "{"
RBRACE == "}"

UPDATE      == "void Update("
FIXEDUPDATE == "void FixedUpdate("
LATEUPDATE  == "void LateUpdate("
ASYNCVOID   == "async void Foo("
GETCOMPONENT == "GetComponent"
SELECT      == "Select("
DEBUGLOG    == "Debug.Log("
ADDFORCE    == "AddForce"
USINGEDITOR == "using UnityEditor;"
CATCH       == "catch (Exception e)"
COMMENT     == "//"
STARTCOROUTINE == "StartCoroutine("
ONDISABLE   == "OnDisable"
ONDESTROY   == "OnDestroy"
STOPCOROUTINE == "StopCoroutine"

\* Symbols whose last character is a word character (\w), and those whose
\* first character is one: what \b looks at on either side.
WordEnd == {"n", GETCOMPONENT, ADDFORCE, ONDISABLE, ONDESTROY, STOPCOROUTINE}

WordStart == {"n", UPDATE, FIXEDUPDATE, LATEUPDATE, ASYNCVOID, GETCOMPONENT,
              SELECT, DEBUGLOG, ADDFORCE, USINGEDITOR, CATCH, STARTCOROUTINE,
              ONDISABLE, ONDESTROY, STOPCOROUTINE}

\* Symbols matched by \s.
Space == {LF, FF, SP}

Names == {"Update", "FixedUpdate", "LateUpdate"}

\* Iteration order of the dict literal of find_method_ranges.
NameOrder == <<"Update", "FixedUpdate", "LateUpdate">>

\* m.group(1) of a METHOD_START_RE match.
Group1 == [s \in {UPDATE, FIXEDUPDATE, LATEUPDATE} |->
             IF s = UPDATE THEN "Update"
             ELSE IF s = FIXEDUPDATE THEN "FixedUpdate" ELSE "LateUpdate"]

\* method_name.lower()
Lower == [n \in Names |->
             IF n = "Update" THEN "update"
             ELSE IF n = "FixedUpdate" THEN "fixedupdate" ELSE "lateupdate"]

None == -1

-----------------------------------------------------------------------------
(* Strings *)

At(t, k) == t[k + 1]

Min(a, b) == IF a <= b THEN a ELSE b

\* \b before offset k: the symbol before it does not end in a word character
\* (every symbol this is asked about starts with one).
BoundaryBefore(t, k) == k = 0 \/ At(t, k - 1) \notin WordEnd

\* \b after the symbol at offset k, which ends in a word character.
BoundaryAfter(t, k) == k + 1 >= Len(t) \/ At(t, k + 1) \notin WordStart

\* text.find(sym, from): the least offset >= from holding sym, or -1.
Find(t, sym, from) ==
    LET S == {j \in from..(Len(t) - 1) : At(t, j) = sym}
    IN IF S = {} THEN -1 ELSE CHOOSE j \in S : \A k \in S : j <= k

\* text.count("\n", 0, end)
CountNewlines(t, end) ==
    Cardinality({j \in 0..(Min(end, Len(t)) - 1) : At(t, j) = LF})

\* text.count("\\n", 0, end): occurrences of the two characters backslash, n.
CountBackslashN(t, end) ==
    Cardinality({j \in 0..(Min(end, Len(t)) - 2) :
                    At(t, j) = BSL /\ At(t, j + 1) = "n"})

\* The ascending sequence of the elements of a finite set of integers.
RECURSIVE Ascending(_)
Ascending(S) ==
    IF S = {} THEN <<>>
    ELSE LET lo == CHOOSE x \in S : \A y \in S : x <= y
         IN <<lo>> \o Ascending(S \ {lo})

\* text.splitlines(): LF and FF end a line; no empty last line.
RECURSIVE SplitLines(_)
SplitLines(t) ==
    IF t = <<>> THEN <<>>
    ELSE LET B == {j \in 1..Len(t) : t[j] \in {LF, FF}}
         IN IF B = {} THEN <<t>>
            ELSE LET j == CHOOSE x \in B : \A y \in B : x <= y
                 IN <<SubSeq(t, 1, j - 1)>>
                    \o SplitLines(SubSeq(t, j + 1, Len(t)))

\* "\\n".join(ls): the lines joined by the two characters backslash, n.
RECURSIVE JoinBackslashN(_)
JoinBackslashN(ls) ==
    IF ls = <<>> THEN <<>>
    ELSE IF Len(ls) = 1 THEN ls[1]
    ELSE ls[1] \o <<BSL, "n">> \o JoinBackslashN(Tail(ls))

\* lines[s-1:e]
Slice(ls, s, e) == SubSeq(ls, s, Min(e, Len(ls)))

-----------------------------------------------------------------------------
(* find_method_ranges *)

\* METHOD_START_RE matches at the declaration lexeme at offset k.
IsMethodStart(t, k) ==
    At(t, k) \in {UPDATE, FIXEDUPDATE, LATEUPDATE} /\ BoundaryBefore(t, k)

\* METHOD_START_RE.finditer(text): the offsets of the matched lexemes.
MethodStarts(t) == Ascending({k \in 0..(Len(t) - 1) : IsMethodStart(t, k)})

\* m.end() of the match at lexeme offset k.
MatchEnd(k) == k + 1

\* A mapping with an empty list for every method name.
EmptyGroups == [n \in Names |-> <<>>]

\* Mutant of NewRanges: the mapping outlives the call (a module-level
\* dict that is not rebuilt).
LeftoverRanges == ranges

\* ranges = {"Update": [], "FixedUpdate": [], "LateUpdate": []}
NewRanges == EmptyGroups

\* Mutant of LineOf: the "+ 1" is forgotten (0-based lines).
LineOfZeroBased(t, pos) == CountNewlines(t, pos)

\* text.count("\n", 0, pos) + 1
LineOf(t, pos) == CountNewlines(t, pos) + 1

\* Mutant of AppendTo: insert(0, x) in place of append(x).
PrependTo(rs, n, x) == [rs EXCEPT ![n] = <<x>> \o @]

\* ranges[name].append(x)
AppendTo(rs, n, x) == [rs EXCEPT ![n] = Append(@, x)]

\* while i < text_len
WhileCond(k, n) == k < n

\* Mutant of IsNone: the test for an unterminated body is dropped.
IsNoneNever(x) == FALSE

\* if end_pos is None
IsNone(x) == x = None

\* Mutant of NextIndex: the walk index is not advanced.
NextIndexStalls(k) == k

\* i += 1
NextIndex(k) == k + 1

\* depth == 0 after the decrement
DepthZero(d) == d = 0

-----------------------------------------------------------------------------
(* The patterns of PATTERNS *)

\* The least offset >= from that holds no \s symbol (Len(t) if there is none).
SkipSpace(t, from) ==
    LET S == {j \in from..Len(t) : j = Len(t) \/ At(t, j) \notin Space}
    IN CHOOSE j \in S : \A k \in S : j <= k

\* PATTERNS["expensive_call_in_update"].search(body)
ExpensiveCall(b) ==
    \E k \in 0..(Len(b) - 1) :
        At(b, k) = GETCOMPONENT /\ BoundaryBefore(b, k) /\ BoundaryAfter(b, k)

\* PATTERNS["linq_in_update"].search(body)
LinqCall(b) ==
    \E k \in 0..(Len(b) - 1) : At(b, k) = SELECT /\ BoundaryBefore(b, k)

\* PATTERNS["debug_in_update"].search(body)
DebugCall(b) ==
    \E k \in 0..(Len(b) - 1) : At(b, k) = DEBUGLOG /\ BoundaryBefore(b, k)

\* PATTERNS["fixedupdate_physics_calls"].search(body)
PhysicsCall(b) ==
    \E k \in 0..(Len(b) - 1) :
        At(b, k) = ADDFORCE /\ BoundaryBefore(b, k) /\ BoundaryAfter(b, k)

\* PATTERNS["using_unityeditor"].search(text).start(), or None: the leftmost
\* line start from which only \s symbols lead to the using directive.
UsingEditorStart(t) ==
    LET S == {q \in 0..(Len(t) - 1) :
                 /\ q = 0 \/ At(t, q - 1) = LF
                 /\ SkipSpace(t, q) < Len(t)
                 /\ At(t, SkipSpace(t, q)) = USINGEDITOR}
    IN IF S = {} THEN None ELSE CHOOSE q \in S : \A k \in S : q <= k

\* The end offset of the PATTERNS["empty_catch"] match that starts at the
\* catch lexeme at offset k, or None.
EmptyCatchEnd(t, k) ==
    LET a == SkipSpace(t, k + 1)
    IN IF a < Len(t) /\ At(t, a) = LBRACE
       THEN LET b == SkipSpace(t, a + 1)
            IN IF b < Len(t) /\ At(t, b) = COMMENT
               THEN LET nl == Find(t, LF, b + 1)
                    IN IF nl # -1 /\ nl + 1 < Len(t) /\ At(t, nl + 1) = RBRACE
                       THEN nl + 2 ELSE None
               ELSE IF b < Len(t) /\ At(t, b) = RBRACE THEN b + 1 ELSE None
       ELSE None

\* PATTERNS["empty_catch"].finditer(text) from offset `from`: the start
\* offsets of the non-overlapping matches, left to right.
RECURSIVE EmptyCatchFrom(_, _)
EmptyCatchFrom(t, from) ==
    IF from >= Len(t) THEN <<>>
    ELSE IF At(t, from) = CATCH /\ EmptyCatchEnd(t, from) # None
    THEN <<from>> \o EmptyCatchFrom(t, EmptyCatchEnd(t, from))
    ELSE EmptyCatchFrom(t, from + 1)

EmptyCatchStarts(t) == EmptyCatchFrom(t, 0)

\* Mutant of AsyncVoidStarts: search() in place of finditer(), so only the
\* first match is seen.
AsyncVoidFirstOnly(t) ==
    LET S == {k \in 0..(Len(t) - 1) :
                 At(t, k) = ASYNCVOID /\ BoundaryBefore(t, k)}
    IN IF S = {} THEN <<>> ELSE <<CHOOSE k \in S : \A x \in S : k <= x>>

\* PATTERNS["async_void"].finditer(text): the start offsets of the matches.
AsyncVoidStarts(t) ==
    Ascending({k \in 0..(Len(t) - 1) :
                  At(t, k) = ASYNCVOID /\ BoundaryBefore(t, k)})

\* PATTERNS["subscribe_event"].search(text)
Subscribe(t) ==
    \E k \in 0..(Len(t) - 2) : At(t, k) = "+" /\ At(t, k + 1) = "="

\* Mutant of Unsubscribe: the pattern is "-" alone.
UnsubscribeMinusOnly(t) == \E k \in 0..(Len(t) - 1) : At(t, k) = "-"

\* PATTERNS["unsubscribe_event"].search(text)
Unsubscribe(t) ==
    \E k \in 0..(Len(t) - 2) : At(t, k) = "-" /\ At(t, k + 1) = "="

\* PATTERNS["start_coroutine"].search(text)
StartCoroutine(t) ==
    \E k \in 0..(Len(t) - 1) :
        At(t, k) = STARTCOROUTINE /\ BoundaryBefore(t, k)

\* sym in text
Contains(t, sym) == \E k \in 0..(Len(t) - 1) : At(t, k) = sym

-----------------------------------------------------------------------------
(* Findings *)

Finding(file, line, severity, rule, detail) ==
    [file |-> file, line |-> line, severity |-> severity, rule |-> rule,
     detail |-> detail]

\* Mutant of Emit: insert at the front in place of append.
EmitInFront(fs, new) == new \o fs

\* findings.append(...), for each element of `new` in turn
Emit(fs, new) == fs \o new

\* The line main() reports for a match that starts at offset pos.
MatchLine(t, pos) == CountBackslashN(t, pos) + 1

UsingEditorFindings(file, t) ==
    IF UsingEditorStart(t) # None
    THEN <<Finding(file, MatchLine(t, UsingEditorStart(t)), "warn",
                   "using-UnityEditor-in-runtime",
                   "File imports UnityEditor; wrap editor-only code or move to Editor/.")>>
    ELSE <<>>

EmptyCatchFindings(file, t) ==
    [k \in 1..Len(EmptyCatchStarts(t)) |->
        Finding(file, MatchLine(t, EmptyCatchStarts(t)[k]), "warn",
                "empty-catch-block", "Empty catch block swallows exceptions.")]

AsyncVoidFindings(file, t) ==
    [k \in 1..Len(AsyncVoidStarts(t)) |->
        Finding(file, MatchLine(t, AsyncVoidStarts(t)[k]), "warn",
                "async-void",
                "Avoid async void (except event handlers); prefer async Task.")]

EventFindings(file, t) ==
    IF Subscribe(t) /\ ~Unsubscribe(t)
    THEN <<Finding(file, 1, "info", "event-unsubscribe-missing",
                   "Subscriptions detected but no obvious unsubscription; ensure to unsubscribe in OnDisable/OnDestroy.")>>
    ELSE <<>>

CoroutineFindings(file, t) ==
    IF /\ StartCoroutine(t)
       /\ ~Contains(t, ONDISABLE) /\ ~Contains(t, ONDESTROY)
       /\ ~Contains(t, STOPCOROUTINE)
    THEN <<Finding(file, 1, "info", "coroutine-stop-missing",
                   "StartCoroutine used without a stop path.")>>
    ELSE <<>>

\* body = "\\n".join(lines[s-1:e])
Body(ls, s, e) == JoinBackslashN(Slice(ls, s, e))

\* The four tests main() makes on one range's body, in order.
BodyFindings(file, method_name, s, body) ==
    (IF ExpensiveCall(body)
     THEN <<Finding(file, s, "warn", Lower[method_name] \o "-expensive-call",
                    "Potentially expensive call inside " \o method_name \o "().")>>
     ELSE <<>>)
    \o
    (IF LinqCall(body)
     THEN <<Finding(file, s, "info", Lower[method_name] \o "-linq-allocation",
                    "LINQ usage inside " \o method_name \o "() can allocate per-frame.")>>
     ELSE <<>>)
    \o
    (IF DebugCall(body)
     THEN <<Finding(file, s, "info", Lower[method_name] \o "-debuglog",
                    "Debug logging inside " \o method_name \o "() can be noisy.")>>
     ELSE <<>>)
    \o
    (IF method_name = "FixedUpdate" /\ PhysicsCall(body)
     THEN <<Finding(file, s, "ok", "fixedupdate-physics",
                    "Physics calls in FixedUpdate (generally correct).")>>
     ELSE <<>>)

\* History entries for the findings one rule step appended.
Stamp(new, step, group, range) ==
    [k \in 1..Len(new) |-> [step |-> step, group |-> group, range |-> range]]

-----------------------------------------------------------------------------
(* The program *)

InitWith(F) ==
    /\ cs_files \in F
    /\ p = 1
    /\ pc = "for_p"
    /\ text = <<>>
    /\ lines = <<>>
    /\ method_ranges = EmptyGroups
    /\ findings = <<>>
    /\ report = <<>>
    /\ text_len = 0
    /\ ranges = EmptyGroups
    /\ m = 1
    /\ name = "Update"
    /\ brace_pos = None
    /\ depth = 0
    /\ i = 0
    /\ end_pos = None
    /\ g = 1
    /\ r = 1
    /\ origin = EmptyGroups
    /\ prov = <<>>
    /\ returned = <<>>

\* for p in cs_files: text = p.read_text(); lines = text.splitlines();
\* the call of find_method_ranges(text) up to its for loop.  After the last
\* file the report is written.
ReadFile ==
    /\ pc = "for_p"
    /\ IF p > Len(cs_files)
       THEN /\ pc' = "done"
            /\ report' = findings
            /\ UNCHANGED <<text, lines, text_len, ranges, m, origin>>
       ELSE /\ text' = cs_files[p]
            /\ lines' = SplitLines(cs_files[p])
            /\ text_len' = Len(cs_files[p])
            /\ ranges' = NewRanges
            /\ origin' = EmptyGroups
            /\ m' = 1
            /\ pc' = "for_m"
            /\ UNCHANGED report
    /\ UNCHANGED <<cs_files, p, method_ranges, findings, name, brace_pos,
                   depth, i, end_pos, g, r, prov, returned>>

\* The code after the while loop: the range is appended unless end_pos is
\* None, and the for loop goes on with the next match.
AfterWhile(ep) ==
    /\ IF IsNone(ep)
       THEN UNCHANGED <<ranges, origin>>
       ELSE /\ ranges' = AppendTo(ranges, name,
                                  <<LineOf(text, brace_pos), LineOf(text, ep)>>)
            /\ origin' = AppendTo(origin, name, MethodStarts(text)[m])
    /\ m' = m + 1
    /\ brace_pos' = None
    /\ depth' = 0
    /\ i' = 0
    /\ end_pos' = None
    /\ pc' = "for_m"

\* for m in METHOD_START_RE.finditer(text): the next match, its name and its
\* opening brace; a match with no brace after it is passed over.  When the
\* matches are used up, find_method_ranges returns ranges.
ForMatch ==
    /\ pc = "for_m"
    /\ IF m > Len(MethodStarts(text))
       THEN /\ method_ranges' = ranges
            /\ returned' = Append(returned, ranges)
            /\ pc' = "using_unityeditor"
            /\ UNCHANGED <<m, name, brace_pos, depth, i, end_pos>>
       ELSE LET bp == Find(text, LBRACE, MatchEnd(MethodStarts(text)[m]))
            IN /\ name' = Group1[At(text, MethodStarts(text)[m])]
               /\ IF bp = -1
                  THEN /\ m' = m + 1
                       /\ UNCHANGED <<pc, brace_pos, depth, i, end_pos>>
                  ELSE /\ brace_pos' = bp
                       /\ depth' = 0
                       /\ i' = bp
                       /\ end_pos' = None
                       /\ pc' = "while"
                       /\ UNCHANGED m
               /\ UNCHANGED <<method_ranges, returned>>
    /\ UNCHANGED <<cs_files, p, text, lines, findings, report, text_len,
                   ranges, g, r, origin, prov>>

\* One test of the while condition and, if it holds, one pass of the loop
\* body; the pass that breaks, and the test that fails, run the code after
\* the loop.
Walk ==
    /\ pc = "while"
    /\ IF WhileCond(i, text_len)
       THEN IF At(text, i) = LBRACE
            THEN /\ depth' = depth + 1
                 /\ i' = NextIndex(i)
                 /\ UNCHANGED <<pc, m, brace_pos, end_pos, ranges, origin>>
            ELSE IF At(text, i) = RBRACE
            THEN IF DepthZero(depth - 1)
                 THEN AfterWhile(i)
                 ELSE /\ depth' = depth - 1
                      /\ i' = NextIndex(i)
                      /\ UNCHANGED <<pc, m, brace_pos, end_pos, ranges, origin>>
            ELSE /\ i' = NextIndex(i)
                 /\ UNCHANGED <<pc, m, brace_pos, end_pos, depth, ranges, origin>>
       ELSE AfterWhile(end_pos)
    /\ UNCHANGED <<cs_files, p, text, lines, method_ranges, findings, report,
                   text_len, name, g, r, prov, returned>>

\* A file-scope rule step: the findings `new` are appended and the program
\* moves on to the statement `next`.
FileRule(at, new, next) ==
    /\ pc = at
    /\ findings' = Emit(findings, new)
    /\ prov' = Emit(prov, Stamp(new, at, 0, 0))
    /\ pc' = next
    /\ UNCHANGED <<cs_files, p, text, lines, method_ranges, report, text_len,
                   ranges, m, name, brace_pos, depth, i, end_pos, g, r,
                   origin, returned>>

UsingEditorRule ==
    FileRule("using_unityeditor", UsingEditorFindings(p, text), "empty_catch")

EmptyCatchRule ==
    FileRule("empty_catch", EmptyCatchFindings(p, text), "async_void")

AsyncVoidRule ==
    FileRule("async_void", AsyncVoidFindings(p, text), "subscribe_event")

EventRule ==
    FileRule("subscribe_event", EventFindings(p, text), "start_coroutine")

CoroutineRule ==
    FileRule("start_coroutine", CoroutineFindings(p, text), "for_ranges")

\* for method_name, ranges in method_ranges.items(): for (s, e) in ranges:
\* one step of the two loops; the body rules of one range are one step.
BodyRules ==
    /\ pc = "for_ranges"
    /\ IF g > Len(NameOrder)
       THEN /\ p' = p + 1
            /\ g' = 1
            /\ r' = 1
            /\ pc' = "for_p"
            /\ UNCHANGED <<findings, prov>>
       ELSE IF r > Len(method_ranges[NameOrder[g]])
       THEN /\ g' = g + 1
            /\ r' = 1
            /\ UNCHANGED <<p, pc, findings, prov>>
       ELSE LET s == method_ranges[NameOrder[g]][r][1]
                e == method_ranges[NameOrder[g]][r][2]
                new == BodyFindings(p, NameOrder[g], s, Body(lines, s, e))
            IN /\ findings' = Emit(findings, new)
               /\ prov' = Emit(prov, Stamp(new, "for_ranges", g, r))
               /\ r' = r + 1
               /\ UNCHANGED <<p, pc, g>>
    /\ UNCHANGED <<cs_files, text, lines, method_ranges, report, text_len,
                   ranges, m, name, brace_pos, depth, i, end_pos, origin,
                   returned>>

Next ==
    \/ ReadFile
    \/ ForMatch
    \/ Walk
    \/ UsingEditorRule
    \/ EmptyCatchRule
    \/ AsyncVoidRule
    \/ EventRule
    \/ CoroutineRule
    \/ BodyRules

-----------------------------------------------------------------------------
(* Inputs *)

\* All texts of at most n symbols over the alphabet A.
Texts(A, n) == UNION {[1..k -> A] : k \in 0..n}

\* find_method_ranges is exercised on every text of at most MaxLenLocate
\* symbols over declarations of two names, braces and newlines, and on every
\* text of at most MaxLenLocate + 2 symbols with declarations of one name.
MaxLenLocate == 5

LocateAlphabet == {UPDATE, FIXEDUPDATE, LBRACE, RBRACE, LF}

LocateTexts ==
    Texts(LocateAlphabet, MaxLenLocate)
    \cup Texts(LocateAlphabet \ {FIXEDUPDATE}, MaxLenLocate + 2)

InitLocate == InitWith({<<t>> : t \in LocateTexts})

SpecLocate == InitLocate /\ [][Next]_vars

\* Termination is checked on every text of at most MaxLenWalk symbols over
\* one declaration, braces and newlines.  The program is sequential and runs
\* to completion: a step that can be taken is taken.
MaxLenWalk == 4

WalkAlphabet == {UPDATE, LBRACE, RBRACE, LF}

InitWalk == InitWith({<<t>> : t \in Texts(WalkAlphabet, MaxLenWalk)})

FairWalk == InitWalk /\ [][Next]_vars /\ WF_vars(Next)

\* The event rule is exercised on every text of at most MaxLenEvent symbols
\* over "+", "-", "=", a declaration and braces.
MaxLenEvent == 5

EventAlphabet == {"+", "-", "=", UPDATE, LBRACE, RBRACE}

InitEvent == InitWith({<<t>> : t \in Texts(EventAlphabet, MaxLenEvent)})

SpecEvent == InitEvent /\ [][Next]_vars

\* The async-void rule: texts of at most MaxLenAsync symbols over the async
\* void declaration, a word character, a newline, a declaration and braces.
MaxLenAsync == 5

AsyncAlphabet == {ASYNCVOID, "n", LF, UPDATE, LBRACE, RBRACE}

InitAsync == InitWith({<<t>> : t \in Texts(AsyncAlphabet, MaxLenAsync)})

SpecAsync == InitAsync /\ [][Next]_vars

\* The body rules: texts of at most MaxLenBody symbols over a FixedUpdate
\* declaration, braces, newlines, spaces, an expensive call and a physics
\* call.
MaxLenBody == 5

BodyAlphabet == {FIXEDUPDATE, LBRACE, RBRACE, LF, SP, GETCOMPONENT, ADDFORCE}

InitBody == InitWith({<<t>> : t \in Texts(BodyAlphabet, MaxLenBody)})

SpecBody == InitBody /\ [][Next]_vars

\* The reported lines: texts of at most MaxLenLines symbols over the
\* characters backslash, n, newline and form feed, an async void
\* declaration, a declaration and braces.
MaxLenLines == 4

LinesAlphabet == {BSL, "n", LF, FF, ASYNCVOID, UPDATE, LBRACE, RBRACE}

InitLines == InitWith({<<t>> : t \in Texts(LinesAlphabet, MaxLenLines)})

SpecLines == InitLines /\ [][Next]_vars

\* Whole scans: a text is a concatenation of at most MaxFragments fragments,
\* one per rule; a run scans a one-fragment text and then one text twice.
MaxFragments == 2

Fragments ==
    { <<USINGEDITOR>>,
      <<CATCH, SP, LBRACE, RBRACE>>,
      <<ASYNCVOID>>,
      <<"+", "=">>,
      <<STARTCOROUTINE>>,
      <<UPDATE, LBRACE, GETCOMPONENT, SP, SELECT, DEBUGLOG, RBRACE>>,
      <<FIXEDUPDATE, LBRACE, ADDFORCE, SP, DEBUGLOG, RBRACE>>,
      <<LATEUPDATE, LBRACE, SELECT, RBRACE>>,
      <<LF>> }

RECURSIVE FragmentTexts(_)
FragmentTexts(n) ==
    IF n = 0 THEN {<<>>}
    ELSE FragmentTexts(n - 1)
         \cup {t \o f : t \in FragmentTexts(n - 1), f \in Fragments}

InitScan ==
    InitWith({<<a, t, t>> : a \in FragmentTexts(1),
                            t \in FragmentTexts(MaxFragments)})

SpecScan == InitScan /\ [][Next]_vars

-----------------------------------------------------------------------------
(* Notions the claims about find_method_ranges are stated in *)

\* The offsets of the declaration matches of text t, and those of name n.
Declarations(t) == {k \in 0..(Len(t) - 1) : IsMethodStart(t, k)}

DeclarationsOf(t, n) == {k \in Declarations(t) : Group1[At(t, k)] = n}

\* The offset of the first "{" after the signature at offset k, or None.
Opening(t, k) ==
    LET S == {j \in (k + 1)..(Len(t) - 1) : At(t, j) = LBRACE}
    IN IF S = {} THEN None ELSE CHOOSE j \in S : \A x \in S : j <= x

\* The value of a depth counter that starts at 0 before offset o and has
\* read the symbols at offsets o..j.
DepthAfter(t, o, j) ==
    Cardinality({x \in o..j : At(t, x) = LBRACE})
    - Cardinality({x \in o..j : At(t, x) = RBRACE})

\* The offset of the first "}" at which the counter started at the opening
\* brace o is back at zero, or None.
Closing(t, o) ==
    LET S == {j \in o..(Len(t) - 1) :
                 At(t, j) = RBRACE /\ DepthAfter(t, o, j) = 0}
    IN IF S = {} THEN None ELSE CHOOSE j \in S : \A x \in S : j <= x

\* The declaration at offset k has a body that is eventually balanced.
Terminated(t, k) ==
    Opening(t, k) # None /\ Closing(t, Opening(t, k)) # None

NewlinesBefore(t, pos) == Cardinality({j \in 0..(pos - 1) : At(t, j) = LF})

\* The range the claims expect for a terminated declaration at offset k.
ExpectedRange(t, k) ==
    <<1 + NewlinesBefore(t, Opening(t, k)),
      1 + NewlinesBefore(t, Closing(t, Opening(t, k)))>>

\* find_method_ranges has just returned to main().
Located == pc = "using_unityeditor"

\* The positions of group n whose range came from the declaration at k.
EntriesOf(n, k) == {x \in 1..Len(origin[n]) : origin[n][x] = k}

-----------------------------------------------------------------------------
(* Claims *)

\* C1: every declaration match whose first following "{" is eventually
\* balanced has exactly one range, in the group of its name and in no other;
\* the range's start_line and end_line are 1 plus the number of newlines
\* before the first "{" after the signature and before the first "}" at
\* which the depth counter is back at zero, and start_line <= end_line.
C1_OneRangePerBalancedDeclaration ==
    Located =>
        \A k \in Declarations(text) :
            Terminated(text, k) =>
                /\ Cardinality(EntriesOf(Group1[At(text, k)], k)) = 1
                /\ \A n \in Names \ {Group1[At(text, k)]} : EntriesOf(n, k) = {}
                /\ \A x \in EntriesOf(Group1[At(text, k)], k) :
                      /\ method_ranges[Group1[At(text, k)]][x] = ExpectedRange(text, k)
                      /\ method_ranges[Group1[At(text, k)]][x][1]
                            <= method_ranges[Group1[At(text, k)]][x][2]

\* C1 witness: a declaration with a nested, multi-line balanced body has
\* been located.
C1_Witness ==
    /\ Located
    /\ \E k \in Declarations(text) :
          /\ Terminated(text, k)
          /\ DepthAfter(text, Opening(text, k), Closing(text, Opening(text, k)) - 1) = 1
          /\ \E j \in Opening(text, k)..Closing(text, Opening(text, k)) :
                DepthAfter(text, Opening(text, k), j) = 2
          /\ ExpectedRange(text, k)[1] < ExpectedRange(text, k)[2]

\* C2: a declaration match with no "{" after it, or whose depth never
\* returns to zero, contributes no range, and every group is exactly the
\* list of the ranges of the other (terminated) declarations of its name, in
\* order, as if the unterminated ones were not in the match list.
C2_UnterminatedDeclarationSkipped ==
    Located =>
        /\ \A k \in Declarations(text) :
              ~Terminated(text, k) => \A n \in Names : EntriesOf(n, k) = {}
        /\ \A n \in Names :
              LET T == Ascending({k \in DeclarationsOf(text, n) : Terminated(text, k)})
              IN method_ranges[n] = [x \in 1..Len(T) |-> ExpectedRange(text, T[x])]

\* C2 witness: a declaration whose body never closes, one with no brace at
\* all after it, and a terminated declaration were all in one text.
C2_Witness ==
    /\ Located
    /\ \E k1, k2 \in Declarations(text) :
          /\ k1 < k2
          /\ Opening(text, k1) # None /\ ~Terminated(text, k1)
          /\ Terminated(text, k2)
    /\ \E k3 \in Declarations(text) : Opening(text, k3) = None

\* C10: each group lists its ranges in the textual order of the
\* declarations they came from, so start_line never decreases along it, and
\* it has one entry per terminated declaration of that name.
C10_GroupsInTextualOrder ==
    Located =>
        \A n \in Names :
            /\ Len(method_ranges[n]) = Len(origin[n])
            /\ Len(method_ranges[n])
                 = Cardinality({k \in DeclarationsOf(text, n) : Terminated(text, k)})
            /\ \A x, y \in 1..Len(method_ranges[n]) :
                  x < y => /\ origin[n][x] < origin[n][y]
                           /\ method_ranges[n][x][1] <= method_ranges[n][y][1]

\* C10 witness: one name was declared twice with terminated bodies that
\* start on different lines.
C10_Witness ==
    /\ Located
    /\ \E n \in Names :
          /\ Len(method_ranges[n]) >= 2
          /\ method_ranges[n][1][1] < method_ranges[n][2][1]

\* C8: the brace walk stays inside the text, advances its index by exactly
\* one per step and is left only at a closing brace or at end of text; a
\* text with no matching declaration (the empty text included) gets no range
\* for any name, the empty text gets no finding, and every run ends.
C8_WalkTerminates ==
    /\ [](pc = "while" => brace_pos <= i /\ i <= text_len)
    /\ [][pc = "while" /\ pc' = "while" => i' = i + 1]_vars
    /\ [][pc = "while" /\ pc' # "while" =>
              i = text_len \/ At(text, i) = RBRACE]_vars
    /\ [](Located /\ Declarations(text) = {} => method_ranges = EmptyGroups)
    /\ [](pc = "done" /\ cs_files = << <<>> >> => findings = <<>> /\ report = <<>>)
    /\ <>(pc = "done")

\* C8 witness: a run has ended on a text whose declaration has a body that
\* nests and never closes.
C8_Witness ==
    /\ pc = "done"
    /\ \E k \in Declarations(text) :
          /\ Opening(text, k) # None
          /\ ~Terminated(text, k)
          /\ DepthAfter(text, Opening(text, k), Len(text) - 1) >= 2

-----------------------------------------------------------------------------
(* Notions the claims about the findings are stated in *)

\* The scan of file p - 1 has just ended: text, lines, method_ranges and
\* origin are still those of that file.
FileScanned == pc = "for_p" /\ p > 1

\* The positions in findings of the findings of file f.
FindingsOf(f) == {x \in 1..Len(findings) : findings[x].file = f}

\* The symbols a, b occur side by side in t.
Adjacent(t, a, b) == \E j \in 1..(Len(t) - 1) : t[j] = a /\ t[j + 1] = b

\* The positions (1-based) of the async void declarations of t that do not
\* continue a word.
AsyncVoidOccurrences(t) ==
    {j \in 1..Len(t) : t[j] = ASYNCVOID /\ (j = 1 \/ t[j - 1] \notin WordEnd)}

\* The number of lines of t: one more than its newline characters.
NumberOfLines(t) == 1 + Cardinality({j \in 1..Len(t) : t[j] = LF})

FileLevelRules == {"event-unsubscribe-missing", "coroutine-stop-missing"}

\* C5: a text with "+=" and no "-=" gets exactly one
\* event-unsubscribe-missing finding, at line 1 with severity info, however
\* many "+=" it has; a text with both, or with no "+=", gets none.
C5_EventUnsubscribeMissing ==
    FileScanned =>
        LET E == {x \in FindingsOf(p - 1) :
                     findings[x].rule = "event-unsubscribe-missing"}
        IN IF Adjacent(text, "+", "=") /\ ~Adjacent(text, "-", "=")
           THEN /\ Cardinality(E) = 1
                /\ \A x \in E : findings[x].line = 1 /\ findings[x].severity = "info"
           ELSE E = {}

\* C5 witness: a scanned text has "+=" twice, a "-" that is not part of a
\* "-=", and its one finding.
C5_Witness ==
    /\ FileScanned
    /\ Cardinality({j \in 1..(Len(text) - 1) : text[j] = "+" /\ text[j + 1] = "="}) = 2
    /\ \E j \in 1..Len(text) : text[j] = "-"
    /\ \E x \in FindingsOf(p - 1) : findings[x].rule = "event-unsubscribe-missing"

\* The number of warn findings of file p - 1 whose rule is `rule` equals the
\* number of async void declarations of the text.
AsyncVoidReportedAs(rule) ==
    FileScanned =>
        Cardinality({x \in FindingsOf(p - 1) :
                        findings[x].rule = rule /\ findings[x].severity = "warn"})
          = Cardinality(AsyncVoidOccurrences(text))

\* C7 as stated: each async void declaration gets exactly one warn finding
\* whose rule identifier is async-void-method.
C7_Original == AsyncVoidReportedAs("async-void-method")

\* C7 as amended: each async void declaration gets exactly one warn finding
\* whose rule identifier is async-void, and no finding has any other
\* identifier that starts with async-void.
C7_AsyncVoidPerOccurrence ==
    /\ AsyncVoidReportedAs("async-void")
    /\ \A x \in 1..Len(findings) : findings[x].rule # "async-void-method"

\* C7 witness: a scanned text declares two async void methods and has two
\* async-void findings.
C7_Witness ==
    /\ FileScanned
    /\ Cardinality(AsyncVoidOccurrences(text)) = 2
    /\ Cardinality({x \in FindingsOf(p - 1) : findings[x].rule = "async-void"}) = 2

\* C4 as stated: every finding other than the two file-level absence
\* findings has a line between 1 and the number of lines of the file.
C4_Original ==
    FileScanned =>
        \A x \in FindingsOf(p - 1) :
            findings[x].rule \notin FileLevelRules =>
                1 <= findings[x].line /\ findings[x].line <= NumberOfLines(text)

\* The body-scope rules that apply to a method name, in table order, each
\* with the lexeme that triggers it and the suffix of its identifier.
RuleId(n, suffix) ==
    IF suffix = "physics" THEN "fixedupdate-physics" ELSE Lower[n] \o "-" \o suffix

BodyRuleTable(n) ==
    << [suffix |-> "expensive-call", trigger |-> GETCOMPONENT],
       [suffix |-> "linq-allocation", trigger |-> SELECT],
       [suffix |-> "debuglog", trigger |-> DEBUGLOG] >>
    \o (IF n = "FixedUpdate"
        THEN << [suffix |-> "physics", trigger |-> ADDFORCE] >> ELSE <<>>)

\* The trigger lexeme occurs, as the pattern of its rule matches it in the
\* source text, strictly between the braces at offsets o and c.
OccursInside(t, trigger, o, c) ==
    \E j \in (o + 1)..(c - 1) :
        /\ At(t, j) = trigger
        /\ At(t, j - 1) \notin WordEnd
        /\ trigger \in WordEnd => At(t, j + 1) \notin WordStart

\* The position of name n in the iteration order of the groups.
GroupIndex(n) == CHOOSE k \in 1..Len(NameOrder) : NameOrder[k] = n

\* C3 as stated: for every range of a method and every body-scope rule that
\* applies to it, if the rule's trigger occurs inside that body in the
\* source text then exactly one finding of that rule was appended for that
\* range, with line = start_line.
C3_Original ==
    FileScanned =>
        \A n \in Names : \A x \in 1..Len(method_ranges[n]) :
            \A k \in 1..Len(BodyRuleTable(n)) :
                LET o == Opening(text, origin[n][x])
                    rule == BodyRuleTable(n)[k]
                    F == {y \in FindingsOf(p - 1) :
                             /\ prov[y] = [step |-> "for_ranges",
                                           group |-> GroupIndex(n), range |-> x]
                             /\ findings[y].rule = RuleId(n, rule.suffix)}
                IN OccursInside(text, rule.trigger, o, Closing(text, o)) =>
                     /\ Cardinality(F) = 1
                     /\ \A y \in F : findings[y].line = method_ranges[n][x][1]

\* The file-scope rules in table order, by the identifiers the program uses.
FileRuleOrder ==
    <<"using-UnityEditor-in-runtime", "empty-catch-block", "async-void",
      "event-unsubscribe-missing", "coroutine-stop-missing">>

FileRules == {FileRuleOrder[k] : k \in 1..Len(FileRuleOrder)}

\* The body-scope rule suffixes in table order.
BodySuffixOrder == <<"expensive-call", "linq-allocation", "debuglog", "physics">>

\* Where the finding at position x stands in the order of one file:
\* <<rule position, 0, 0, 0>> for a file-scope finding, and
\* <<6, group, range, rule position>> for a body-scope finding.
OrderKey(x) ==
    IF findings[x].rule \in FileRules
    THEN <<CHOOSE k \in 1..Len(FileRuleOrder) :
               FileRuleOrder[k] = findings[x].rule, 0, 0, 0>>
    ELSE <<Len(FileRuleOrder) + 1, prov[x].group, prov[x].range,
           CHOOSE k \in 1..Len(BodySuffixOrder) :
               \E n \in Names : findings[x].rule = RuleId(n, BodySuffixOrder[k])>>

\* Lexicographic order on keys.
KeyLess(a, b) ==
    \E k \in 1..4 : a[k] < b[k] /\ \A j \in 1..(k - 1) : a[j] = b[j]

\* C6: in the final sequence the findings of one file are contiguous (files
\* in scan order); within a file the file-scope findings come first, in
\* table order, then the body-scope findings by group, then by range within
\* the group, then by rule in table order, each rule at most once a range.
C6_FindingsOrder ==
    pc = "done" =>
        /\ Len(prov) = Len(findings)
        /\ \A x \in 1..Len(findings) :
              /\ findings[x].rule \in FileRules <=> prov[x].step # "for_ranges"
              /\ findings[x].rule \notin FileRules =>
                    \E k \in 1..Len(BodySuffixOrder) :
                        findings[x].rule
                          = RuleId(NameOrder[prov[x].group], BodySuffixOrder[k])
        /\ \A x, y \in 1..Len(findings) :
              x < y =>
                /\ findings[x].file <= findings[y].file
                /\ findings[x].file = findings[y].file =>
                      \/ KeyLess(OrderKey(x), OrderKey(y))
                      \/ /\ OrderKey(x) = OrderKey(y)
                         /\ findings[x].rule \in {"empty-catch-block", "async-void"}

\* C6 witness: the first file has a body-scope finding; the next file's text
\* begins with a FixedUpdate body and has its "+=" after it, and its
\* event-unsubscribe-missing finding stands before its fixedupdate-physics
\* and fixedupdate-debuglog findings.
C6_Witness ==
    /\ pc = "done"
    /\ \E x \in FindingsOf(1) : findings[x].rule \notin FileRules
    /\ cs_files[2] # <<>> /\ cs_files[2][1] = FIXEDUPDATE
    /\ \E x, y, z \in FindingsOf(2) :
          /\ x < y /\ y < z
          /\ findings[x].rule = "event-unsubscribe-missing"
          /\ findings[y].rule = "fixedupdate-debuglog"
          /\ findings[z].rule = "fixedupdate-physics"

\* The findings of file f, in order, without the file identifier.
FindingsOfFile(f) ==
    LET own == SelectSeq(findings, LAMBDA x : x.file = f)
    IN [k \in 1..Len(own) |->
           [line |-> own[k].line, severity |-> own[k].severity,
            rule |-> own[k].rule, detail |-> own[k].detail]]

\* C9: two scans of identical text in one run return the same range mapping
\* and append the same findings, element for element, whatever was scanned
\* before them; and the report is the findings list.
C9_ScanIsPure ==
    pc = "done" =>
        /\ Len(returned) = Len(cs_files)
        /\ report = findings
        /\ \A j, k \in 1..Len(cs_files) :
              cs_files[j] = cs_files[k] =>
                /\ returned[j] = returned[k]
                /\ FindingsOfFile(j) = FindingsOfFile(k)

\* C9 witness: after a first file with a method body, one text with a
\* method body and findings of both scopes has been scanned twice.
C9_Witness ==
    /\ pc = "done"
    /\ cs_files[1] # cs_files[2] /\ cs_files[2] = cs_files[3]
    /\ \E n \in Names : returned[1][n] # <<>>
    /\ \E n \in Names : returned[3][n] # <<>>
    /\ \E x, y \in FindingsOf(3) :
          findings[x].rule \in FileRules /\ findings[y].rule \notin FileRules

====
